---------------------------- MODULE Spec2Model ----------------------------
(***************************************************************************)
(* Model of feed_generators/openai_eng_blog.py: one run of main(), which   *)
(* fetches the OpenAI engineering page, parses its anchors into article    *)
(* records, builds an RSS feed from them and saves it.                     *)
(*                                                                         *)
(* Strings are TLA+ strings; a character is a string of length one.  The   *)
(* regular expressions, str methods and datetime arithmetic the parser     *)
(* relies on are written out as operators over the characters.             *)
(***************************************************************************)
EXTENDS Integers, Sequences, FiniteSets, TLC

(***************************************************************************)
(* Bounds of the model.                                                    *)
(***************************************************************************)
\* longest page, in <a> elements, built from Catalog
MaxAnchors == 3
\* most loop iterations of one run in which an exception is raised
MaxFaults == 1
\* hash() values are kept in -HashSpan .. HashSpan - 1 (CPython: 64 bits)
HashSpan == 2048

(***************************************************************************)
(* Program constants.                                                      *)
(***************************************************************************)
MinTextLen == 20
FallbackWindow == 730
EpochYear == 2023

SiteOrigin == "https://openai.com"
ArticleMarker == "/index/"
CategoryTag == "Engineering"
None == "None"
UTC == "UTC"
\* what strptime or datetime yields in place of a datetime when it raises
ValueError == [year |-> 0, month |-> 0, day |-> 0, tzinfo |-> "ValueError"]
\* what re.search yields when the pattern occurs nowhere
NoMatch == [start |-> 0, end |-> 0]

Months == <<"Jan", "Feb", "Mar", "Apr", "May", "Jun",
            "Jul", "Aug", "Sep", "Oct", "Nov", "Dec">>

MonthNames == {Months[m] : m \in 1..12}

Whitespace == {" ", "\t", "\n", "\r"}
Digits == {"0", "1", "2", "3", "4", "5", "6", "7", "8", "9"}

(***************************************************************************)
(* str helpers.                                                            *)
(***************************************************************************)
\* s[i-1:i], i counted from 1: "" outside the string
CharAt(s, i) == IF i >= 1 /\ i <= Len(s) THEN SubSeq(s, i, i) ELSE ""

\* s[i-1:].startswith(p), i counted from 1
StartsAt(s, i, p) == i + Len(p) - 1 <= Len(s) /\ SubSeq(s, i, i + Len(p) - 1) = p

startswith(s, p) == StartsAt(s, 1, p)

RECURSIVE FindFrom(_, _, _)
\* s.find(p, i-1) counted from 1; 0 when p does not occur from position i on
FindFrom(s, p, i) ==
    IF i + Len(p) - 1 > Len(s) THEN 0
    ELSE IF StartsAt(s, i, p) THEN i
    ELSE FindFrom(s, p, i + 1)

\* s.find(p) counted from 1; 0 when p does not occur
find(s, p) == FindFrom(s, p, 1)

\* p in s
contains(s, p) == find(s, p) # 0

RECURSIVE Span(_, _, _)
\* number of consecutive characters of s from position p on that lie in Chars
Span(s, p, Chars) ==
    IF p >= 1 /\ p <= Len(s) /\ CharAt(s, p) \in Chars
    THEN 1 + Span(s, p + 1, Chars)
    ELSE 0

RECURSIVE SpanBack(_, _, _)
\* number of consecutive characters of s from position p back that lie in Chars
SpanBack(s, p, Chars) ==
    IF p >= 1 /\ p <= Len(s) /\ CharAt(s, p) \in Chars
    THEN 1 + SpanBack(s, p - 1, Chars)
    ELSE 0

\* s.strip()
strip(s) ==
    LET lead  == Span(s, 1, Whitespace)
        trail == SpanBack(s, Len(s), Whitespace)
    IN  IF lead = Len(s) THEN "" ELSE SubSeq(s, lead + 1, Len(s) - trail)

RECURSIVE replace(_, _, _)
\* s.replace(old, new): every non-overlapping occurrence, left to right
replace(s, old, new) ==
    LET i == find(s, old)
    IN  IF i = 0 THEN s
        ELSE SubSeq(s, 1, i - 1) \o new
                 \o replace(SubSeq(s, i + Len(old), Len(s)), old, new)

DigitVal(c) ==
    CASE c = "0" -> 0 [] c = "1" -> 1 [] c = "2" -> 2 [] c = "3" -> 3
      [] c = "4" -> 4 [] c = "5" -> 5 [] c = "6" -> 6 [] c = "7" -> 7
      [] c = "8" -> 8 [] c = "9" -> 9

RECURSIVE ToInt(_)
\* int(s) for a string of decimal digits
ToInt(s) ==
    IF s = "" THEN 0
    ELSE ToInt(SubSeq(s, 1, Len(s) - 1)) * 10 + DigitVal(CharAt(s, Len(s)))

\* index of the month abbreviation that starts at position i of s; 0 if none
MonthAt(s, i) ==
    LET abbr == IF i >= 1 /\ i + 2 <= Len(s) THEN SubSeq(s, i, i + 2) ELSE ""
    IN  IF abbr \in MonthNames
        THEN CHOOSE m \in 1..12 : Months[m] = abbr
        ELSE 0

(***************************************************************************)
(* datetime: a record [year, month, day, tzinfo]; the time of day is       *)
(* always 00:00:00 in this program.                                        *)
(***************************************************************************)
IsLeap(y) == y % 4 = 0 /\ (y % 100 # 0 \/ y % 400 = 0)

DaysInMonth(y, m) ==
    CASE m \in {1, 3, 5, 7, 8, 10, 12} -> 31
      [] m \in {4, 6, 9, 11} -> 30
      [] m = 2 -> IF IsLeap(y) THEN 29 ELSE 28

DaysBeforeYear(y) ==
    (y - 1) * 365 + ((y - 1) \div 4) - ((y - 1) \div 100) + ((y - 1) \div 400)

RECURSIVE DaysBeforeMonth(_, _)
DaysBeforeMonth(y, m) ==
    IF m = 1 THEN 0 ELSE DaysBeforeMonth(y, m - 1) + DaysInMonth(y, m - 1)

\* date.toordinal(): 0001-01-01 is day 1
ToOrdinal(d) == DaysBeforeYear(d.year) + DaysBeforeMonth(d.year, d.month) + d.day

\* date.fromordinal(n), keeping the tzinfo given
FromOrdinal(n, tz) ==
    LET y == CHOOSE yy \in (n \div 366)..(n \div 365 + 1) :
                 DaysBeforeYear(yy) < n /\ n <= DaysBeforeYear(yy + 1)
        r == n - DaysBeforeYear(y)
        m == CHOOSE mm \in 1..12 :
                 DaysBeforeMonth(y, mm) < r /\ r <= DaysBeforeMonth(y, mm) + DaysInMonth(y, mm)
    IN  [year |-> y, month |-> m, day |-> r - DaysBeforeMonth(y, m), tzinfo |-> tz]

\* datetime(y, m, d, 0, 0, 0, tzinfo=tz); ValueError outside the calendar
datetime(y, m, d, tz) ==
    IF y >= 1 /\ y <= 9999 /\ m \in 1..12 /\ d >= 1 /\ d <= DaysInMonth(y, m)
    THEN [year |-> y, month |-> m, day |-> d, tzinfo |-> tz]
    ELSE ValueError

\* dt + timedelta(days=n)
AddDays(dt, n) == FromOrdinal(ToOrdinal(dt) + n, dt.tzinfo)

\* the replace() left out: the datetime stays naive
ReplaceTzForgotten(dt, tz) == dt

\* dt.replace(tzinfo=tz)
ReplaceTz(dt, tz) == [dt EXCEPT !.tzinfo = tz]

(***************************************************************************)
(* re.search(r'(Jan|...|Dec)\s+(\d{1,2}),\s+(\d{4})', text)                *)
(***************************************************************************)
\* (\d{4}) at p: the end position of the match, 0 if the pattern fails
DateYearEnd(text, p) == IF Span(text, p, Digits) >= 4 THEN p + 3 ELSE 0

\* ,\s+ at p, then the year
DateCommaEnd(text, p) ==
    IF CharAt(text, p) = "," /\ Span(text, p + 1, Whitespace) >= 1
    THEN DateYearEnd(text, p + 1 + Span(text, p + 1, Whitespace))
    ELSE 0

\* (\d{1,2}) at p: greedy, and a third digit is no comma; then the rest
DateDayEnd(text, p) ==
    IF Span(text, p, Digits) = 0 THEN 0
    ELSE IF Span(text, p, Digits) = 1 THEN DateCommaEnd(text, p + 1)
    ELSE DateCommaEnd(text, p + 2)

\* end position of a match of the date pattern that starts at i; 0 if none
DateMatchEnd(text, i) ==
    IF MonthAt(text, i) # 0 /\ Span(text, i + 3, Whitespace) >= 1
    THEN DateDayEnd(text, i + 3 + Span(text, i + 3, Whitespace))
    ELSE 0

RECURSIVE DateSearchFrom(_, _)
DateSearchFrom(text, i) ==
    IF i > Len(text) THEN NoMatch
    ELSE LET e == DateMatchEnd(text, i)
         IN  IF e # 0 THEN [start |-> i, end |-> e] ELSE DateSearchFrom(text, i + 1)

\* the leftmost match as [start, end], or NoMatch
DateSearch(text) == DateSearchFrom(text, 1)

(***************************************************************************)
(* datetime.strptime(date_str, "%b %d, %Y"): a naive datetime, or          *)
(* ValueError.  %d takes 01..31 or 1..9, %Y four digits, a blank of the    *)
(* format any run of whitespace, and the whole string must be used up.     *)
(***************************************************************************)
\* %Y at p, and nothing after it
StrptimeYear(date_str, m, dd, p) ==
    IF Span(date_str, p, Digits) = 4 /\ p + 3 = Len(date_str)
    THEN datetime(ToInt(SubSeq(date_str, p, p + 3)), m, ToInt(dd), None)
    ELSE ValueError

\* the comma and the blank of the format at p, then %Y
StrptimeComma(date_str, m, dd, p) ==
    IF CharAt(date_str, p) = "," /\ Span(date_str, p + 1, Whitespace) >= 1
    THEN StrptimeYear(date_str, m, dd, p + 1 + Span(date_str, p + 1, Whitespace))
    ELSE ValueError

\* %d over the nd digits at p, then the rest
StrptimeDay(date_str, m, p, nd) ==
    IF /\ nd \in {1, 2}
       /\ ToInt(SubSeq(date_str, p, p + nd - 1)) >= 1
       /\ ToInt(SubSeq(date_str, p, p + nd - 1)) <= 31
    THEN StrptimeComma(date_str, m, SubSeq(date_str, p, p + nd - 1), p + nd)
    ELSE ValueError

\* after %b and the blank of the format: %d starts at p
StrptimeFrom(date_str, m, p) == StrptimeDay(date_str, m, p, Span(date_str, p, Digits))

strptime(date_str) ==
    IF MonthAt(date_str, 1) # 0 /\ Span(date_str, 4, Whitespace) >= 1
    THEN StrptimeFrom(date_str, MonthAt(date_str, 1), 4 + Span(date_str, 4, Whitespace))
    ELSE ValueError

(***************************************************************************)
(* re.sub(r'Engineering(Jan|...|Dec).*$', '', text): the pattern matches   *)
(* at the leftmost "Engineering" that a month abbreviation follows and     *)
(* from which '.*' (which stops at a line break) reaches '$': the end of   *)
(* the text, or the line break that ends it.  The match is deleted.        *)
(***************************************************************************)
TagDateMatchesAt(text, i) ==
    LET after == i + Len(CategoryTag) + 3
        break == FindFrom(text, "\n", after)
    IN  /\ StartsAt(text, i, CategoryTag)
        /\ MonthAt(text, i + Len(CategoryTag)) # 0
        /\ break \in {0, Len(text)}

RECURSIVE TagDateFrom(_, _)
\* where the leftmost match starts, looking from position i on; 0 if nowhere
TagDateFrom(text, i) ==
    IF i > Len(text) THEN 0
    ELSE IF TagDateMatchesAt(text, i) THEN i
    ELSE TagDateFrom(text, i + 1)

\* the pattern without its month group: 'Engineering.*$'
TagDateSubAnyTag(text) ==
    LET at == find(text, CategoryTag)
    IN  IF at = 0 THEN text ELSE SubSeq(text, 1, at - 1)

TagDateSub(text) ==
    LET at == TagDateFrom(text, 1)
    IN  IF at = 0 THEN text
        ELSE SubSeq(text, 1, at - 1)
                 \o (IF CharAt(text, Len(text)) = "\n" THEN "\n" ELSE "")

(***************************************************************************)
(* The state of one run of main().                                         *)
(***************************************************************************)
VARIABLES
    page,          \* the <a> elements of the page the site serves, in document order
    seed,          \* the process's string-hash seed
    pc,            \* position of main(): start, fetched, parsing, parsed, generated, done
    html_content,  \* main's html_content: what fetch_engineering_page returned
    anchors,       \* soup.find_all("a", href=True)
    idx,           \* position of the for loop in anchors
    articles,      \* parse_engineering_html's articles list
    feed,          \* the entries of the FeedGenerator, in feed order
    file,          \* feeds/feed_openai_engineering.xml
    result,        \* what main() returned: None while it runs
    calls,         \* history: the stages invoked so far, in order
    failed,        \* history: the stage whose exception reached main; None if none did
    origin,        \* history: origin[k] is the index in anchors articles[k] was built from
    raised,        \* history: per loop iteration done, where its exception was raised
    fallbacks      \* history: the calls of stable_fallback_date as [identifier, date]

vars == <<page, seed, pc, html_content, anchors, idx, articles, feed, file,
          result, calls, failed, origin, raised, fallbacks>>

(***************************************************************************)
(* hash(identifier): CPython hashes a str with a function keyed by a seed  *)
(* drawn per process, into a signed machine word.  Here: a polynomial      *)
(* over the character codes, keyed by seed, into -HashSpan..HashSpan-1.    *)
(***************************************************************************)
\* the code points the fold reads, numbered from 1
CharCodes ==
    (" " :> 1) @@ ("#" :> 2) @@ ("," :> 3) @@ ("-" :> 4) @@ ("." :> 5) @@ ("/" :> 6)
    @@ ("0" :> 7) @@ ("1" :> 8) @@ ("2" :> 9) @@ ("3" :> 10) @@ ("4" :> 11) @@ ("5" :> 12)
    @@ ("6" :> 13) @@ ("7" :> 14) @@ ("8" :> 15) @@ ("9" :> 16) @@ (":" :> 17) @@ ("A" :> 18)
    @@ ("B" :> 19) @@ ("C" :> 20) @@ ("D" :> 21) @@ ("E" :> 22) @@ ("F" :> 23) @@ ("G" :> 24)
    @@ ("H" :> 25) @@ ("I" :> 26) @@ ("J" :> 27) @@ ("K" :> 28) @@ ("L" :> 29) @@ ("M" :> 30)
    @@ ("N" :> 31) @@ ("O" :> 32) @@ ("P" :> 33) @@ ("Q" :> 34) @@ ("R" :> 35) @@ ("S" :> 36)
    @@ ("T" :> 37) @@ ("U" :> 38) @@ ("V" :> 39) @@ ("W" :> 40) @@ ("X" :> 41) @@ ("Y" :> 42)
    @@ ("Z" :> 43) @@ ("a" :> 44) @@ ("b" :> 45) @@ ("c" :> 46) @@ ("d" :> 47) @@ ("e" :> 48)
    @@ ("f" :> 49) @@ ("g" :> 50) @@ ("h" :> 51) @@ ("i" :> 52) @@ ("j" :> 53) @@ ("k" :> 54)
    @@ ("l" :> 55) @@ ("m" :> 56) @@ ("n" :> 57) @@ ("o" :> 58) @@ ("p" :> 59) @@ ("q" :> 60)
    @@ ("r" :> 61) @@ ("s" :> 62) @@ ("t" :> 63) @@ ("u" :> 64) @@ ("v" :> 65) @@ ("w" :> 66)
    @@ ("x" :> 67) @@ ("y" :> 68) @@ ("z" :> 69)

Code(c) == IF c \in DOMAIN CharCodes THEN CharCodes[c] ELSE 0

RECURSIVE HashFold(_, _)
HashFold(h, s) ==
    IF s = "" THEN h
    ELSE HashFold((h * 33 + Code(CharAt(s, 1))) % (2 * HashSpan), SubSeq(s, 2, Len(s)))

hash(identifier) == HashFold(977 * seed + 5, identifier) - HashSpan

abs(n) == IF n < 0 THEN -n ELSE n

\* abs() left out, with a remainder that takes the sign of the dividend
StableFallbackDateSigned(identifier) ==
    LET h        == hash(identifier)
        hash_val == IF h < 0 THEN -((-h) % FallbackWindow) ELSE h % FallbackWindow
        epoch    == datetime(EpochYear, 1, 1, UTC)
    IN  AddDays(epoch, hash_val)

stable_fallback_date(identifier) ==
    LET hash_val == abs(hash(identifier)) % FallbackWindow
        epoch    == datetime(EpochYear, 1, 1, UTC)
    IN  AddDays(epoch, hash_val)

(***************************************************************************)
(* parse_engineering_html, one <a> element at a time.  An element is       *)
(* [href, strings]: its href attribute (None when it has none) and its     *)
(* text nodes in document order.                                           *)
(***************************************************************************)
find_all(elements) == SelectSeq(elements, LAMBDA a : a.href # None)

RECURSIVE JoinStripped(_)
JoinStripped(strings) ==
    IF strings = <<>> THEN ""
    ELSE strip(Head(strings)) \o JoinStripped(Tail(strings))

\* a.get_text(strip=True): the text nodes, each stripped, joined
get_text(a) == JoinStripped(a.strings)

\* the marker without its closing slash
IsArticleLinkLoose(href) == contains(href, "/index")

\* line 49
IsArticleLink(href) == contains(href, ArticleMarker)

\* line 53
LongEnough(text) == ~(Len(text) < MinTextLen)

\* lines 61-68: the date pattern matched and strptime returned parsed
Dated(href, text, parsed) ==
    [title     |-> strip(TagDateSub(text)),
     date      |-> IF parsed # ValueError
                   THEN ReplaceTz(parsed, UTC)
                   ELSE stable_fallback_date(href),
     fell_back |-> parsed = ValueError]

\* lines 70-71: the date pattern did not match
Undated(href, text) ==
    [title     |-> strip(replace(text, CategoryTag, "")),
     date      |-> stable_fallback_date(href),
     fell_back |-> TRUE]

\* lines 60-71 for the result date_match of the search of line 58
TitleAndDateAt(href, text, date_match) ==
    IF date_match # NoMatch
    THEN Dated(href, text, strptime(SubSeq(text, date_match.start, date_match.end)))
    ELSE Undated(href, text)

\* lines 58-71: [title, date, fell_back] from the combined text; fell_back
\* says that the date is stable_fallback_date(href)
TitleAndDate(href, text) == TitleAndDateAt(href, text, DateSearch(text))

\* line 74
FullUrl(href) == IF startswith(href, "/") THEN SiteOrigin \o href ELSE href

\* only the article appended last is compared
IsDuplicateOfLast(arts, link) == arts # <<>> /\ arts[Len(arts)].link = link

\* line 77
IsDuplicate(arts, link) == \E k \in 1..Len(arts) : arts[k].link = link

\* lines 80-86
MakeArticle(title, link, date) ==
    [title       |-> title,
     link        |-> link,
     date        |-> date,
     category    |-> CategoryTag,
     description |-> title]

\* lines 77-87 with the title and date td worked out
Collect(arts, href, link, td) ==
    IF IsDuplicate(arts, link)
    THEN [articles |-> arts,
          logged   |-> FALSE,
          fell     |-> IF td.fell_back
                       THEN {[identifier |-> href, date |-> td.date]} ELSE {}]
    ELSE [articles |-> Append(arts, MakeArticle(td.title, link, td.date)),
          logged   |-> TRUE,
          fell     |-> IF td.fell_back
                       THEN {[identifier |-> href, date |-> td.date]} ELSE {}]

\* lines 49-87 for the href and combined text of an element
LoopBodyAt(arts, href, text) ==
    IF ~IsArticleLink(href) THEN [articles |-> arts, logged |-> FALSE, fell |-> {}]
    ELSE IF ~LongEnough(text) THEN [articles |-> arts, logged |-> FALSE, fell |-> {}]
    ELSE Collect(arts, href, FullUrl(href), TitleAndDate(href, text))

\* lines 45-87 for element a when nothing raises: the list afterwards, whether
\* line 87 was reached, and the stable_fallback_date calls made on the way
LoopBody(arts, a) == LoopBodyAt(arts, a.href, get_text(a))

(***************************************************************************)
(* generate_rss_feed: sorted(..., reverse=True) is stable, and             *)
(* FeedGenerator.add_entry() called without order= puts the new entry      *)
(* in front of the entries the feed already holds.                         *)
(***************************************************************************)
\* x["date"] as a sort key: aware datetimes at midnight UTC compare by day
DateKey(article) == ToOrdinal(article.date)

\* put x behind the last element whose key is >= x's key
InsertDescending(sorted, x) ==
    LET n == Cardinality({k \in 1..Len(sorted) : DateKey(sorted[k]) >= DateKey(x)})
    IN  SubSeq(sorted, 1, n) \o <<x>> \o SubSeq(sorted, n + 1, Len(sorted))

RECURSIVE SortedNewestFirst(_)
\* line 106: sorted(articles, key=lambda x: x["date"], reverse=True)
SortedNewestFirst(arts) ==
    IF arts = <<>> THEN <<>>
    ELSE InsertDescending(SortedNewestFirst(SubSeq(arts, 1, Len(arts) - 1)),
                          arts[Len(arts)])

\* lines 110-115: the fields set on the new entry
MakeEntry(article) ==
    [title       |-> article.title,
     link        |-> article.link,
     description |-> article.description,
     published   |-> article.date,
     category    |-> article.category,
     id          |-> article.link]

\* line 109: fg.add_entry(), order='prepend'
add_entry(entries, e) == <<e>> \o entries

RECURSIVE AddEntries(_, _)
\* lines 108-115: the loop over articles_sorted
AddEntries(entries, arts) ==
    IF arts = <<>> THEN entries
    ELSE AddEntries(add_entry(entries, MakeEntry(Head(arts))), Tail(arts))

generate_rss_feed(arts) == AddEntries(<<>>, SortedNewestFirst(arts))

(***************************************************************************)
(* Pages.  Catalog holds the elements the multi-anchor pages are built     *)
(* from; the families vary one part of a single element at a time.         *)
(***************************************************************************)
Elem(href, strings) == [href |-> href, strings |-> strings]

Catalog ==
    << Elem("/index/x", <<"New Model Release", "Engineering", "Jan 5, 2024">>),
       Elem("https://openai.com/index/x",
            <<" Another look at scaling ", "Engineering", "Mar 1, 2024">>),
       Elem("/index/y", <<"Scaling the platform", "Engineering", "Feb 30, 2024">>),
       Elem("news/index/w", <<"Weekly notes and updates", "Engineering", "Feb 1, 2024">>) >>

RECURSIVE PagesOfLength(_)
PagesOfLength(n) ==
    IF n = 0 THEN {<<>>}
    ELSE {Append(p, Catalog[i]) : p \in PagesOfLength(n - 1), i \in 1..Len(Catalog)}

CatalogPages == UNION {PagesOfLength(n) : n \in 0..MaxAnchors}

DateDays == {"1", "05", "28", "29", "30", "31", "0", "32"}

DateYears == {"2023", "2024", "1900", "0000"}

\* every month with days around the ends of the months, in the usual layout
DateFamily ==
    {Elem("/index/d", <<"Quarterly infrastructure report", "Engineering",
                        Months[m] \o " " \o d \o ", " \o y>>) :
        m \in 1..12, d \in DateDays, y \in DateYears}

TitleTexts ==
    { <<"New Model Release", "Engineering", "Jan 5, 2024">>,
      <<"New Model ReleaseEngineeringJan 5, 2024">>,
      <<"\n  New Model Release\n", " ", "Engineering", "Jan  5,\n2024 ">>,
      <<"Release notes for Jan 5, 2024 and beyond">>,
      <<"Release notes, Engineering", "Research", "Jan 5, 2024">>,
      <<"EngineeringMarvels at scale", "Engineering", "Jan 5, 2024">>,
      <<"Site Reliability Engineering", "May 2, 2024", "EngineeringJun 3, 2024">>,
      <<"Notes on\nEngineeringMay day", "Engineering", "Jan 5, 2024", "5 min\nread">>,
      <<"How we scale", "Engineering", "Jan 5, 20245 min read">>,
      <<"Engineering", "Jan 5, 2024">>,
      <<"Platform Engineering at large scale">>,
      <<"Engineering Engineering blog", "Engineering">>,
      <<"Read the announcement">>,
      <<"Nineteen characters">>,
      <<"  Padded to nineteen ", "  ">>,
      <<"Exactly twenty chars">>,
      <<>> }

TitleFamily == {Elem("/index/t", ss) : ss \in TitleTexts}

HrefValues ==
    { "/index/x", "https://openai.com/index/x", "http://openai.com/index/x",
      "news/index/x", "//host/index/x", "../index/x", "/index/", "/index",
      "index/x", "/about/team", "/news/indexes/x", "#", "", None }

HrefFamily ==
    {Elem(h, <<"New Model Release", "Engineering", "Jan 5, 2024">>) : h \in HrefValues}

SinglePages == {<<e>> : e \in DateFamily \cup TitleFamily \cup HrefFamily}

Pages == CatalogPages \cup SinglePages

Seeds == {0, 1}

NoFile == [exists |-> FALSE, entries |-> <<>>]

(***************************************************************************)
(* The run.                                                                *)
(***************************************************************************)
Init ==
    /\ page \in Pages
    /\ seed \in Seeds
    /\ pc = "start"
    /\ html_content = <<>>
    /\ anchors = <<>>
    /\ idx = 0
    /\ articles = <<>>
    /\ feed = <<>>
    /\ file = NoFile
    /\ result = None
    /\ calls = <<>>
    /\ failed = None
    /\ origin = <<>>
    /\ raised = <<>>
    /\ fallbacks = {}

\* lines 134, 26-32: the GET succeeds and the body comes back
FetchOk ==
    /\ pc = "start"
    /\ calls' = Append(calls, "fetch")
    /\ html_content' = page
    /\ pc' = "fetched"
    /\ UNCHANGED <<page, seed, anchors, idx, articles, feed, file, result, failed,
                   origin, raised, fallbacks>>

\* the except clause of fetch_engineering_page without its raise: the failure
\* is logged and main goes on with no page
FetchRaiseSwallowed ==
    /\ pc = "start"
    /\ calls' = Append(calls, "fetch")
    /\ failed' = "fetch"
    /\ html_content' = <<>>
    /\ pc' = "fetched"
    /\ UNCHANGED <<page, seed, anchors, idx, articles, feed, file, result, origin,
                   raised, fallbacks>>

\* lines 134, 33-35, 142-144: the GET fails or the status is not 2xx; the
\* exception is logged, raised again and caught by main
FetchRaise ==
    /\ pc = "start"
    /\ calls' = Append(calls, "fetch")
    /\ failed' = "fetch"
    /\ result' = "False"
    /\ pc' = "done"
    /\ UNCHANGED <<page, seed, html_content, anchors, idx, articles, feed, file,
                   origin, raised, fallbacks>>

\* lines 135, 40-43: the soup is built and the loop starts
ParseBegin ==
    /\ pc = "fetched"
    /\ calls' = Append(calls, "parse")
    /\ anchors' = find_all(html_content)
    /\ articles' = <<>>
    /\ idx' = 1
    /\ pc' = "parsing"
    /\ UNCHANGED <<page, seed, html_content, feed, file, result, failed, origin,
                   raised, fallbacks>>

\* lines 135, 40, 142-144: BeautifulSoup rejects the markup
ParseRaise ==
    /\ pc = "fetched"
    /\ calls' = Append(calls, "parse")
    /\ failed' = "parse"
    /\ result' = "False"
    /\ pc' = "done"
    /\ UNCHANGED <<page, seed, html_content, anchors, idx, articles, feed, file,
                   origin, raised, fallbacks>>

\* where an iteration of the loop may raise: nowhere, in lines 45-79 (before
\* the append), or in line 87 (the log call that follows the append)
FaultPoints == {"none", "extract", "log"}

Faults(r) == {k \in 1..Len(r) : r[k] # "none"}

\* lines 43-91: one iteration of the loop, with its except clause
ParseAnchor ==
    /\ pc = "parsing"
    /\ idx <= Len(anchors)
    /\ LET body == LoopBody(articles, anchors[idx])
       IN  \E fault \in FaultPoints :
               /\ fault # "none" => Cardinality(Faults(raised)) < MaxFaults
               /\ fault = "log" => body.logged
               /\ articles' = IF fault = "extract" THEN articles ELSE body.articles
               /\ origin' = IF fault # "extract" /\ body.logged
                            THEN Append(origin, idx)
                            ELSE origin
               /\ fallbacks' = IF fault = "extract" THEN fallbacks
                               ELSE fallbacks \cup body.fell
               /\ raised' = Append(raised, fault)
    /\ idx' = idx + 1
    /\ UNCHANGED <<page, seed, pc, html_content, anchors, feed, file, result, calls,
                   failed>>

\* lines 93-94: the loop is over and the list is returned
ParseReturn ==
    /\ pc = "parsing"
    /\ idx > Len(anchors)
    /\ pc' = "parsed"
    /\ UNCHANGED <<page, seed, html_content, anchors, idx, articles, feed, file,
                   result, calls, failed, origin, raised, fallbacks>>

\* lines 136-138
EmptyReturn ==
    /\ pc = "parsed"
    /\ articles = <<>>
    /\ result' = "False"
    /\ pc' = "done"
    /\ UNCHANGED <<page, seed, html_content, anchors, idx, articles, feed, file,
                   calls, failed, origin, raised, fallbacks>>

\* main without the check of lines 136-138
GenerateUnchecked ==
    /\ pc = "parsed"
    /\ calls' = Append(calls, "generate")
    /\ feed' = generate_rss_feed(articles)
    /\ pc' = "generated"
    /\ UNCHANGED <<page, seed, html_content, anchors, idx, articles, file, result,
                   failed, origin, raised, fallbacks>>

\* line 139
Generate ==
    /\ pc = "parsed"
    /\ articles # <<>>
    /\ calls' = Append(calls, "generate")
    /\ feed' = generate_rss_feed(articles)
    /\ pc' = "generated"
    /\ UNCHANGED <<page, seed, html_content, anchors, idx, articles, file, result,
                   failed, origin, raised, fallbacks>>

\* lines 140-141, 123-128: the file is written and main returns True
SaveOk ==
    /\ pc = "generated"
    /\ calls' = Append(calls, "save")
    /\ file' = [exists |-> TRUE, entries |-> feed]
    /\ result' = "True"
    /\ pc' = "done"
    /\ UNCHANGED <<page, seed, html_content, anchors, idx, articles, feed, failed,
                   origin, raised, fallbacks>>

\* lines 140, 124-126, 142-144: mkdir, the serialization or the write raises
SaveRaise ==
    /\ pc = "generated"
    /\ calls' = Append(calls, "save")
    /\ failed' = "save"
    /\ result' = "False"
    /\ pc' = "done"
    /\ UNCHANGED <<page, seed, html_content, anchors, idx, articles, feed, file,
                   origin, raised, fallbacks>>

Next ==
    \/ FetchOk
    \/ FetchRaise
    \/ ParseBegin
    \/ ParseRaise
    \/ ParseAnchor
    \/ ParseReturn
    \/ EmptyReturn
    \/ Generate
    \/ SaveOk
    \/ SaveRaise

Spec == Init /\ [][Next]_vars

(***************************************************************************)
(* What the properties below speak of.                                     *)
(***************************************************************************)
\* the loop iterations done so far
Done == 1..Len(raised)

\* iteration i got as far as resolving its link: both filters passed and
\* nothing was raised before the append
Resolved(i) ==
    /\ contains(anchors[i].href, "/index/")
    /\ Len(get_text(anchors[i])) >= 20
    /\ raised[i] # "extract"

LinkOf(i) ==
    IF startswith(anchors[i].href, "/")
    THEN "https://openai.com" \o anchors[i].href
    ELSE anchors[i].href

IsCalendarDate(d) ==
    /\ d.year \in 1..9999
    /\ d.month \in 1..12
    /\ d.day \in 1..DaysInMonth(d.year, d.month)

\* u starts with a scheme and "//"
IsAbsoluteUrl(u) == startswith(u, "https://") \/ startswith(u, "http://")

Stages == <<"fetch", "parse", "generate", "save">>

\* the date the pattern matched in text, read off the match piece by piece
MatchedDate(text) ==
    LET m    == DateSearch(text)
        p2   == m.start + 3 + Span(text, m.start + 3, Whitespace)
        nd   == Span(text, p2, Digits)
    IN  [year  |-> ToInt(SubSeq(text, m.end - 3, m.end)),
         month |-> MonthAt(text, m.start),
         day   |-> ToInt(SubSeq(text, p2, p2 + (IF nd > 2 THEN 2 ELSE nd) - 1)),
         tzinfo |-> UTC]

(***************************************************************************)
(* C1.  The returned list holds no two articles with the same link; of     *)
(* the anchors that resolve to one link the first in document order is     *)
(* the one whose article is kept, and the later ones leave the list as it  *)
(* was: at every point of the loop the list is exactly the articles of     *)
(* the first anchors per link, in document order.                          *)
(***************************************************************************)
FirstForLink(i) ==
    Resolved(i) /\ \A j \in 1..(i - 1) : Resolved(j) => LinkOf(j) # LinkOf(i)

C1_FirstOccurrenceWins ==
    /\ \A j, k \in 1..Len(articles) : j # k => articles[j].link # articles[k].link
    /\ Len(origin) = Len(articles)
    /\ {origin[k] : k \in 1..Len(origin)} = {i \in Done : FirstForLink(i)}
    /\ \A k \in 1..(Len(origin) - 1) : origin[k] < origin[k + 1]
    /\ \A k \in 1..Len(articles) : articles[k].link = LinkOf(origin[k])

\* a relative and an absolute href of one link were both processed
C1_Witness ==
    /\ pc = "parsed"
    /\ Len(articles) = 1
    /\ \E i, j \in Done :
           /\ i < j
           /\ Resolved(i)
           /\ Resolved(j)
           /\ anchors[i].href = "/index/x"
           /\ anchors[j].href = "https://openai.com/index/x"

(***************************************************************************)
(* C2.  Every returned article has a non-empty link and a date that is a   *)
(* calendar date tagged UTC: the date parsed from the text when the        *)
(* pattern is found and names a date, stable_fallback_date(href) when the  *)
(* pattern is not found or strptime raises.                                *)
(***************************************************************************)
C2_DateOf(a) ==
    LET text    == get_text(a)
        matched == MatchedDate(text)
    IN  IF DateSearch(text) # NoMatch /\ IsCalendarDate(matched)
        THEN matched
        ELSE stable_fallback_date(a.href)

C2_LinkAndUtcDate ==
    pc = "parsed" =>
        \A k \in 1..Len(articles) :
            /\ articles[k].link # ""
            /\ articles[k].date.tzinfo = UTC
            /\ IsCalendarDate(articles[k].date)
            /\ articles[k].date = C2_DateOf(anchors[origin[k]])

\* one list with a parsed date and a date that strptime refused
C2_Witness ==
    /\ pc = "parsed"
    /\ Len(articles) = 2
    /\ get_text(anchors[origin[1]]) = "Scaling the platformEngineeringFeb 30, 2024"
    /\ articles[1].date = stable_fallback_date("/index/y")
    /\ articles[2].date = [year |-> 2024, month |-> 1, day |-> 5, tzinfo |-> UTC]

(***************************************************************************)
(* C3.  The feed holds one entry per article, newest first.                *)
(***************************************************************************)
C3_NewestFirst ==
    pc \in {"generated", "done"} /\ Len(calls) >= 3 =>
        /\ Len(feed) = Len(articles)
        /\ \A i, j \in 1..Len(feed) :
               i < j => ToOrdinal(feed[i].published) >= ToOrdinal(feed[j].published)

(***************************************************************************)
(* C4.  When the parser returns an empty list main returns False, and      *)
(* neither generate_rss_feed nor save_rss_feed is called: no file.         *)
(***************************************************************************)
C4_EmptyMeansFailure ==
    pc = "done" /\ failed = None /\ articles = <<>> =>
        /\ result = "False"
        /\ calls = <<"fetch", "parse">>
        /\ feed = <<>>
        /\ file = NoFile

\* a page with anchors, none of which qualifies
C4_Witness ==
    /\ pc = "done"
    /\ failed = None
    /\ articles = <<>>
    /\ Len(anchors) >= 1
    /\ result = "False"

(***************************************************************************)
(* C5.  main returns a boolean whatever happens: the stages run in the     *)
(* order fetch, parse, generate, save, each at most once; once a stage     *)
(* has raised no other stage runs and main returns False; main returns     *)
(* True only when save_rss_feed has written the file.                      *)
(***************************************************************************)
C5_CatchAll ==
    /\ Len(calls) <= Len(Stages)
    /\ \A k \in 1..Len(calls) : calls[k] = Stages[k]
    /\ (pc = "done") = (result # None)
    /\ result \in {None, "True", "False"}
    /\ failed # None => pc = "done" /\ result = "False" /\ calls[Len(calls)] = failed
    /\ result = "True" =>
           calls = Stages /\ failed = None /\ file = [exists |-> TRUE, entries |-> feed]

\* the last stage raised after the three before it had run
C5_Witness ==
    /\ pc = "done"
    /\ failed = "save"
    /\ result = "False"
    /\ calls = Stages
    /\ file = NoFile

(***************************************************************************)
(* C6.  An anchor whose href lacks "/index/" or whose stripped text is     *)
(* shorter than 20 characters contributes no article: every article comes  *)
(* from an anchor with "/index/" in its href and at least 20 characters    *)
(* of text, and carries the link that href resolves to.                    *)
(***************************************************************************)
C6_OnlyQualifyingAnchors ==
    /\ Len(origin) = Len(articles)
    /\ \A k \in 1..Len(articles) :
           /\ origin[k] \in Done
           /\ contains(anchors[origin[k]].href, "/index/")
           /\ Len(get_text(anchors[origin[k]])) >= 20
           /\ articles[k].link = LinkOf(origin[k])

\* an article link with 19 characters of text was passed over
C6_Witness ==
    /\ pc = "parsed"
    /\ Len(anchors) = 1
    /\ contains(anchors[1].href, "/index/")
    /\ Len(get_text(anchors[1])) = 19
    /\ raised = <<"none">>
    /\ articles = <<>>

(***************************************************************************)
(* C7.  stable_fallback_date gives one date per identifier, and every      *)
(* date it gives is 2023-01-01 UTC plus d days with 0 <= d < 730, so a     *)
(* date of 2023 or 2024, for negative hash values too.                     *)
(***************************************************************************)
C7_FallbackWindow ==
    \A f \in fallbacks :
        /\ ToOrdinal(f.date) - ToOrdinal([year |-> 2023, month |-> 1, day |-> 1]) \in 0..729
        /\ f.date.year \in {2023, 2024}
        /\ IsCalendarDate(f.date)
        /\ f.date.tzinfo = UTC
        /\ \A g \in fallbacks : g.identifier = f.identifier => g.date = f.date

\* a fallback date was made from a negative hash value
C7_Witness ==
    \E f \in fallbacks : hash(f.identifier) < 0 /\ f.date.year = 2024

(***************************************************************************)
(* C8, as stated.  For a qualifying anchor whose text holds the date       *)
(* pattern, the title is the text up to "Engineering" followed by the      *)
(* matched month abbreviation, and the date is the matched date, UTC.      *)
(***************************************************************************)
C8_StatedTitle(text) ==
    LET m   == DateSearch(text)
        cut == find(text, "Engineering" \o SubSeq(text, m.start, m.start + 2))
    IN  strip(IF cut = 0 THEN text ELSE SubSeq(text, 1, cut - 1))

C8_Cuts(text) ==
    {i \in 1..Len(text) :
        /\ StartsAt(text, i, "Engineering")
        /\ \E m \in 1..12 : StartsAt(text, i + 11, Months[m])
        /\ \A j \in (i + 14)..Len(text) : CharAt(text, j) # "\n"}

C8_AmendedTitle(text) ==
    LET cuts == C8_Cuts(text)
        cut  == CHOOSE i \in cuts : \A j \in cuts : i <= j
    IN  strip(IF cuts = {} THEN text ELSE SubSeq(text, 1, cut - 1))

C9_LinksAbsolute ==
    \A k \in 1..Len(articles) : IsAbsoluteUrl(articles[k].link)

(***************************************************************************)
(* C10.  An exception in the iteration of one anchor skips that anchor     *)
(* and nothing else: the returned list is the list the page would give     *)
(* without the anchors whose iteration raised.                             *)
(***************************************************************************)
RECURSIVE C10_ParseWithout(_, _)
\* the list after the iterations from i on, leaving out those that raised
C10_ParseWithout(arts, i) ==
    IF i > Len(anchors) THEN arts
    ELSE IF raised[i] # "none" THEN C10_ParseWithout(arts, i + 1)
    ELSE C10_ParseWithout(LoopBody(arts, anchors[i]).articles, i + 1)

C10_OnlyFailingAnchorSkipped ==
    pc = "parsed" => articles = C10_ParseWithout(<<>>, 1)

=============================================================================
